---------------------------- MODULE Spec2Model ----------------------------
(***************************************************************************)
(* Model of robobrowser/browser.py: the RoboBrowser history (a list of     *)
(* RoboState objects addressed by a cursor), its navigation operations     *)
(* (open, follow_link, submit_form, back, forward), and the retry wrapper  *)
(* that __init__ puts around open and submit_form.                         *)
(*                                                                         *)
(* Python lists are 0-based: the state at cursor c is states[c + 1] here.  *)
(* Every RoboError of the source is named by the message it carries:       *)
(*   'No state'                 -> "NoState"                                *)
(*   'Index out of range'       -> "IndexOutOfRange"                        *)
(*   'Not tracking history'     -> "HistoryDisabled"                        *)
(*   'Link element must have "href" attribute' -> "MissingAttribute"        *)
(***************************************************************************)
EXTENDS Integers, Sequences, FiniteSets, TLC

\* ------------------------------------------------------------------ bounds
\* Largest integer history depth a browser is constructed with.
MaxDepth == 2
\* RoboState objects created in one run (successful navigations).
MaxPages == 4
\* Largest configured number of tries.
MaxTries == 3
\* back(n) / forward(n) are called with n in -1 .. MaxStep.
MaxStep == 2

\* ------------------------------------------------------- constructor inputs
\* self._maxlen = None (history is True): no limit.  None and 0 are both
\* falsy in `if self._maxlen:`.
NoneLen == 0

\* The history argument: True, False, or an integer (0 is falsy).
HistoryValues ==
    {[kind |-> "bool", value |-> 1], [kind |-> "bool", value |-> 0]}
        \cup {[kind |-> "int", value |-> d] : d \in 0..MaxDepth}

HistoryTrue == [kind |-> "bool", value |-> 1]

\* Python truthiness of the history argument (`not history`).
Truthy(h) == h.value # 0

\* __init__, "Configure history": the value of self._maxlen.
InitMaxlen(h) ==
    IF h = HistoryTrue THEN NoneLen
    ELSE IF ~Truthy(h) THEN 1
    ELSE h.value

\* What one transport request (session.get / session.post) does: it returns,
\* c.perform() raises pycurl.error, or decoder.decompress raises zlib.error.
Outcomes == {"ok", "TransportError", "DecodeError"}

\* The errors argument: pycurl.error (the default), or a tuple with zlib.error.
ErrorSets == {{"TransportError"}, {"TransportError", "DecodeError"}}

\* delay and multiplier arguments; 0 stands for None.
Delays == {0, 2}
Multipliers == {0, 3}

\* ======================================================================
\* The transport (RoboCurl), the decoders, and the pages: the requests a
\* navigation sends and the RoboResponse / RoboState objects it creates.
\* ======================================================================

\* ------------------------------------------------------------------ bounds
\* Transport requests made in one run of the page-level specification.
MaxRequests == 2
\* Pieces a compressed stream is handed to a decoder in.
MaxChunks == 3

\* -------------------------------------------------------------------- URLs
\* A URL or URL reference: a host ("" for a relative reference) and a path
\* ("" for the empty reference).
Abs(h, p) == [host |-> h, path |-> p]
Rel(p) == [host |-> "", path |-> p]
EmptyRef == [host |-> "", path |-> ""]

IsAbsolute(u) == u.host # ""

\* urlparse.urljoin(base, url): an absolute url stands, an empty one gives
\* the base, a path reference replaces the base's path.
UrlJoin(base, url) ==
    IF base = EmptyRef THEN url
    ELSE IF url = EmptyRef THEN base
    ELSE IF IsAbsolute(url) THEN url
    ELSE [host |-> base.host, path |-> url.path]

\* ---------------------------------------------------------------- decoders
\* Bytes are sequences of chunks [fmt, k, txt, bad]: piece k of a stream in
\* format fmt ("zlib": zlib-wrapped deflate, "raw": deflate without header,
\* "gzip", "plain": not compressed) that holds the text txt; a bad chunk is
\* corrupt.
Plain(c) == [fmt |-> "plain", k |-> c.k, txt |-> c.txt, bad |-> FALSE]

\* zlib.decompressobj(wbits): MAX_WBITS reads "zlib", -MAX_WBITS reads "raw",
\* 16 + MAX_WBITS reads "gzip"; `fed` counts the pieces inflated so far.
ZlibObj(wbits) == [wbits |-> wbits, fed |-> 0]

\* obj.decompress(data): the pieces are inflated in order; a piece of another
\* format, a corrupt piece or a piece out of sequence raises zlib.error.
RECURSIVE ZDecompress(_, _, _)
ZDecompress(obj, data, out) ==
    IF data = <<>> THEN [obj |-> obj, out |-> out, err |-> FALSE]
    ELSE LET c == Head(data)
         IN  IF c.fmt # obj.wbits \/ c.bad \/ c.k # obj.fed + 1
             THEN [obj |-> obj, out |-> out, err |-> TRUE]
             ELSE ZDecompress([obj EXCEPT !.fed = obj.fed + 1], Tail(data),
                              Append(out, Plain(c)))

\* DeflateDecoder.__init__: _first_try, _data = binary_type(), _obj.
\* browser.py neither defines nor imports binary_type: the constructor
\* raises NameError unless the name is bound in the module's globals.
DeflateDecoderInit(bt) ==
    IF bt = "unbound" THEN [error |-> "NameError"]
    ELSE [error |-> "", first_try |-> TRUE, data |-> <<>>, data_none |-> FALSE,
          obj |-> ZlibObj("zlib")]

\* DeflateDecoder.decompress(data): [d: the decoder after the call, out: the
\* bytes returned, err: whether zlib.error is raised, switched: whether the
\* except branch ran].
DeflateDecompress(d, data) ==
    IF ~d.first_try
    THEN LET z == ZDecompress(d.obj, data, <<>>)
         IN  [d |-> [d EXCEPT !.obj = z.obj], out |-> z.out, err |-> z.err,
              switched |-> FALSE]
    ELSE LET buffered == d.data \o data
             z == ZDecompress(d.obj, data, <<>>)
         IN  IF ~z.err
             THEN [d |-> [d EXCEPT !.data = buffered, !.obj = z.obj],
                   out |-> z.out, err |-> FALSE, switched |-> FALSE]
             ELSE LET y == ZDecompress(ZlibObj("raw"), buffered, <<>>)
                  IN  [d |-> [d EXCEPT !.first_try = FALSE, !.obj = y.obj,
                                        !.data = <<>>, !.data_none = TRUE],
                       out |-> y.out, err |-> y.err, switched |-> TRUE]

\* _get_decoder(mode) followed by decoder.decompress(payload), as
\* _do_request runs them: the payload decoded, or the exception raised;
\* `switched` tells whether the deflate decoder fell back to raw mode.
DecodePayload(mode, payload, bt) ==
    IF mode = "gzip"
    THEN LET z == ZDecompress(ZlibObj("gzip"), payload, <<>>)
         IN  [error |-> IF z.err THEN "DecodeError" ELSE "",
              payload |-> IF z.err THEN payload ELSE z.out,
              switched |-> FALSE]
    ELSE LET d == DeflateDecoderInit(bt)
         IN  IF d.error # ""
             THEN [error |-> d.error, payload |-> payload, switched |-> FALSE]
             ELSE LET r == DeflateDecompress(d, payload)
                  IN  [error |-> IF r.err THEN "DecodeError" ELSE "",
                       payload |-> IF r.err THEN payload ELSE r.out,
                       switched |-> r.switched]

\* --------------------------------------------------------------- transport
\* A Python dict is a set of <<key, value>> pairs with distinct keys.
DictGet(d, key, default) ==
    IF \E p \in d : p[1] = key
    THEN (CHOOSE p \in d : p[1] = key)[2]
    ELSE default

DictSet(d, key, value) == {p \in d : p[1] # key} \cup {<<key, value>>}

\* str.lower() on the header names the server sends.
Lower(name) ==
    CASE name = "Content-Encoding" -> "content-encoding"
      [] name = "Server" -> "server"
      [] OTHER -> name

\* RoboCurl.parse_headers: the first line becomes status_line, every
\* "name: value" line is stored under the lower-cased name, later lines
\* overwriting earlier ones.
RECURSIVE ParseLines(_, _)
ParseLines(lines, d) ==
    IF lines = <<>> THEN d
    ELSE ParseLines(Tail(lines),
                    DictSet(d, Lower(Head(lines).name), Head(lines).value))

ParseHeaders(hdr) ==
    [status_line |-> hdr.status, d |-> ParseLines(hdr.lines, {})]

\* The argument `headers` of get/post/_do_request: None, a list of header
\* lines [name, value], or the dict submit_form passes in that position.
NoHeaders == [kind |-> "none", items |-> {}]
HeaderList(items) == [kind |-> "list", items |-> items]
HeaderDict(d) == [kind |-> "dict", items |-> d]

\* `if headers:`
HeadersGiven(headers) == headers.items # {}

\* Lines 99-106: every given header name with an empty value.
EmptyHeaders(headers) == {[name |-> h.name, value |-> ""] : h \in headers.items}

\* What libcurl puts on the wire for the HTTPHEADER option of the handle: a
\* line "Name:" with nothing after the colon sends no header.
WireHeaders(httpheader) == {h \in httpheader : h.value # ""}

\* A dict object is a reference into `dicts`; {} and parse_headers' d = {}
\* allocate one.
FreshRef(ds) == CHOOSE r \in 1..(Cardinality(DOMAIN ds) + 1) : r \notin DOMAIN ds

Alloc(ds, r, d) == [x \in DOMAIN ds \cup {r} |-> IF x = r THEN d ELSE ds[x]]

\* RoboCurl.reset(), as __init__ runs it: hdr / headers / payload cleared on
\* a new handle that has no custom header and no effective URL yet.
SessionInit ==
    [headers |-> 1, payload |-> <<>>, status_line |-> "", url |-> EmptyRef,
     httpheader |-> {}]

DictsInit == [x \in {1} |-> {}]

\* Line 88, self.headers = {}: the attribute is bound to a new dict; the
\* dict it named before is left as it was.
ClearHeadersInPlace(s, ds) ==
    [s |-> s, ds |-> [ds EXCEPT ![s.headers] = {}]]

ClearHeaders(s, ds) ==
    [s |-> [s EXCEPT !.headers = FreshRef(ds)],
     ds |-> Alloc(ds, FreshRef(ds), {})]

\* RoboCurl._do_request(url, headers), entered from get (method "GET") or
\* post (method "POST", POSTFIELDS = params). Result: the session and the
\* dicts after the call, the exception raised ("" if none), and the
\* requests put on the wire.
DoRequest(s, ds, method, url, params, headers, reply, bt) ==
    LET c == ClearHeaders(s, ds)
        req(h) == [method |-> method, url |-> url,
                   params |-> IF method = "POST" THEN params ELSE {},
                   headers |-> WireHeaders(h)]
    IN  IF HeadersGiven(headers) /\ headers.kind = "dict"
        THEN [s |-> c.s, ds |-> c.ds, error |-> "TypeError", sent |-> <<>>]
        ELSE
        LET s2 == IF HeadersGiven(headers)
                  THEN [c.s EXCEPT !.httpheader = headers.items]
                  ELSE c.s
            s3 == [s2 EXCEPT !.url = url]
            sent == <<req(s2.httpheader)>>
        IN  IF reply.perform # "ok"
            THEN [s |-> s3, ds |-> c.ds, error |-> "TransportError",
                  sent |-> sent]
            ELSE
            LET p == ParseHeaders(reply.hdr)
                r == FreshRef(c.ds)
                s4 == [s3 EXCEPT
                         !.payload = reply.body,
                         !.httpheader = IF HeadersGiven(headers)
                                        THEN EmptyHeaders(headers) ELSE @,
                         !.headers = r,
                         !.status_line = p.status_line]
                ds4 == Alloc(c.ds, r, p.d)
                encoding == DictGet(p.d, "content-encoding", "")
            IN  IF encoding \in {"gzip", "deflate"}
                THEN LET dec == DecodePayload(encoding, reply.body, bt)
                     IN  IF dec.error # ""
                         THEN [s |-> s4, ds |-> ds4, error |-> dec.error,
                               sent |-> sent]
                         ELSE [s |-> [s4 EXCEPT !.payload = dec.payload],
                               ds |-> ds4, error |-> "", sent |-> sent]
                ELSE [s |-> s4, ds |-> ds4, error |-> "", sent |-> sent]

\* RoboCurl.get(url, headers) and RoboCurl.post(url, params, headers).
Get(s, ds, url, headers, reply, bt) ==
    DoRequest(s, ds, "GET", url, {}, headers, reply, bt)

Post(s, ds, url, params, headers, reply, bt) ==
    DoRequest(s, ds, "POST", url, params, headers, reply, bt)

\* ------------------------------------------------------------------- pages
\* RoboResponse.__init__(session): content, url and headers are read from the
\* session (headers is the session's dict itself, not a copy); status_line
\* is set to the empty string.
RoboResponse(s) ==
    [content |-> s.payload, url |-> s.url, status_line |-> "",
     headers |-> s.headers]

\* RoboState.__init__: the response, its url, and an empty parse cache. The
\* fields `parses` (how often BeautifulSoup ran for this state) and `born`
\* (the session's answer when the state was created) are history only.
RoboState(s, ds) ==
    [response |-> RoboResponse(s), url |-> s.url,
     parsed |-> [none |-> TRUE, doc |-> <<>>], parses |-> 0,
     born |-> [content |-> s.payload, url |-> s.url,
               headers |-> ds[s.headers], status_line |-> s.status_line]]

\* RoboState.parsed: BeautifulSoup runs on response.content only while the
\* cache is None.
ParsedAlways(st) ==
    [st EXCEPT !.parsed = [none |-> FALSE, doc |-> st.response.content],
               !.parses = @ + 1]

Parsed(st) ==
    IF st.parsed.none
    THEN [st EXCEPT !.parsed = [none |-> FALSE, doc |-> st.response.content],
                    !.parses = @ + 1]
    ELSE st

\* ======================================================================
\* The browser
\* ======================================================================
VARIABLES
    history,     \* self.history
    maxlen,      \* self._maxlen
    tries,       \* tries argument (0: None, no retry wrapper)
    errors,      \* errors argument: the retryable kinds
    delay,       \* delay argument
    multiplier,  \* multiplier argument
    states,      \* self._states: sequence of RoboState, each [id |-> k]
    cursor,      \* self._cursor
    nid,         \* number of RoboState objects constructed so far
    last,        \* the call that ended last: its inputs, its result, the
                 \* history before it
    sess,        \* self.session: the RoboCurl object and its handle
    dicts,       \* the dict objects alive, by reference
    heap,        \* the RoboState objects constructed, by id
    binary_type, \* what the global name binary_type resolves to when
                 \* DeflateDecoder() runs: "unbound" in browser.py as it
                 \* stands, "bytes" where the running program has bound it
    nreq,        \* page-level navigation calls made so far
    plast,       \* the page-level call that ended last
    dec,         \* a DeflateDecoder fed a stream piece by piece
    dhist,       \* decode: the last one-shot decoding of a body, calls:
                 \* the decompress calls made on `dec`, each with the
                 \* decoder before and after it
    prev         \* the call that ended before `last`: "offTail" when it
                 \* was a navigation that succeeded with states after the
                 \* cursor, "tail" for any other navigation that succeeded,
                 \* "none" otherwise

vars == <<history, maxlen, tries, errors, delay, multiplier,
          states, cursor, nid, last, prev,
          sess, dicts, heap, binary_type, nreq, plast, dec, dhist>>

pagevars == <<sess, dicts, heap, binary_type, nreq, plast>>

decvars == <<dec, dhist>>

config == <<history, maxlen, tries, errors, delay, multiplier>>

\* ------------------------------------------------------------ the history

\* RoboBrowser.state: the current RoboState, or the RoboError it raises.
\* self._states[self._cursor] accepts the negative indices -len .. -1.
StateAccessor(st, cur) ==
    IF cur = -1 THEN "NoState"
    ELSE IF cur >= Len(st) \/ cur < -Len(st) THEN "IndexOutOfRange"
    ELSE "ok"

\* st[:k] of Python for 0 <= k.
Take(st, k) == SubSeq(st, 1, IF k < Len(st) THEN k ELSE Len(st))

\* st[k:] of Python for 0 <= k.
Drop(st, k) == SubSeq(st, k + 1, Len(st))

\* _update_state with the cursor left alone when leading states are cleared.
UpdateStateNoDecrement(st, cur, ml, new) ==
    LET appended  == Append(Take(st, cur + 1), new)
        decrement == Len(appended) - ml
    IN  IF ml # 0 /\ decrement > 0
        THEN [states |-> Drop(appended, decrement), cursor |-> cur + 1]
        ELSE [states |-> appended, cursor |-> cur + 1]

\* _update_state clearing from the wrong end: states[:maxlen].
UpdateStateDropNewest(st, cur, ml, new) ==
    LET appended  == Append(Take(st, cur + 1), new)
        decrement == Len(appended) - ml
    IN  IF ml # 0 /\ decrement > 0
        THEN [states |-> Take(appended, ml), cursor |-> cur + 1 - decrement]
        ELSE [states |-> appended, cursor |-> cur + 1]

\* _update_state without "Clear trailing states".
UpdateStateKeepTrailing(st, cur, ml, new) ==
    LET appended  == Append(st, new)
        decrement == Len(appended) - ml
    IN  IF ml # 0 /\ decrement > 0
        THEN [states |-> Drop(appended, decrement), cursor |-> cur + 1 - decrement]
        ELSE [states |-> appended, cursor |-> cur + 1]

\* _update_state inserting the new state after the cursor without clearing
\* the states that follow it.
UpdateStateInsert(st, cur, ml, new) ==
    LET appended  == Append(Take(st, cur + 1), new) \o Drop(st, cur + 1)
        decrement == Len(appended) - ml
    IN  IF ml # 0 /\ decrement > 0
        THEN [states |-> Drop(appended, decrement), cursor |-> cur + 1 - decrement]
        ELSE [states |-> appended, cursor |-> cur + 1]

\* RoboBrowser._update_state: clear trailing states, append the new state,
\* advance the cursor, clear leading states.
UpdateState(st, cur, ml, new) ==
    LET appended  == Append(Take(st, cur + 1), new)
        cur1      == cur + 1
        decrement == Len(appended) - ml
    IN  IF ml # 0 /\ decrement > 0
        THEN [states |-> Drop(appended, decrement), cursor |-> cur1 - decrement]
        ELSE [states |-> appended, cursor |-> cur1]

\* _traverse with `cursor > len(self._states)`.
TraverseOffByOne(h, st, cur, n) ==
    IF ~Truthy(h) THEN [result |-> "HistoryDisabled", cursor |-> cur]
    ELSE IF cur + n > Len(st) \/ cur + n < 0
         THEN [result |-> "IndexOutOfRange", cursor |-> cur]
         ELSE [result |-> "ok", cursor |-> cur + n]

\* _traverse without the `cursor < 0` test.
TraverseNoLowerBound(h, st, cur, n) ==
    IF ~Truthy(h) THEN [result |-> "HistoryDisabled", cursor |-> cur]
    ELSE IF cur + n >= Len(st)
         THEN [result |-> "IndexOutOfRange", cursor |-> cur]
         ELSE [result |-> "ok", cursor |-> cur + n]

\* _traverse with `self.history is False` for `not self.history`.
TraverseIsFalse(h, st, cur, n) ==
    IF h = [kind |-> "bool", value |-> 0]
    THEN [result |-> "HistoryDisabled", cursor |-> cur]
    ELSE IF cur + n >= Len(st) \/ cur + n < 0
         THEN [result |-> "IndexOutOfRange", cursor |-> cur]
         ELSE [result |-> "ok", cursor |-> cur + n]

\* _traverse treating the integer depth 1 as history turned off.
TraverseDepthOneOff(h, st, cur, n) ==
    IF ~Truthy(h) \/ h = [kind |-> "int", value |-> 1]
    THEN [result |-> "HistoryDisabled", cursor |-> cur]
    ELSE IF cur + n >= Len(st) \/ cur + n < 0
         THEN [result |-> "IndexOutOfRange", cursor |-> cur]
         ELSE [result |-> "ok", cursor |-> cur + n]

\* RoboBrowser._traverse(n): the error raised, or the new cursor.
Traverse(h, st, cur, n) ==
    IF ~Truthy(h) THEN [result |-> "HistoryDisabled", cursor |-> cur]
    ELSE IF cur + n >= Len(st) \/ cur + n < 0
         THEN [result |-> "IndexOutOfRange", cursor |-> cur]
         ELSE [result |-> "ok", cursor |-> cur + n]


\* --------------------------------------------------------- one attempt
\* The browser's mutable history as one value: [states, cursor, nid].

\* open with _update_state run whatever the request did.
OpenAttemptPushFirst(b, ml, out) ==
    LET u == UpdateState(b.states, b.cursor, ml, [id |-> b.nid + 1])
    IN  [b |-> [states |-> u.states, cursor |-> u.cursor, nid |-> b.nid + 1],
         result |-> out]

\* RoboBrowser.open (the undecorated method): one transport GET, and on its
\* return one _update_state with a new RoboState.
OpenAttempt(b, ml, out) ==
    IF out # "ok" THEN [b |-> b, result |-> out]
    ELSE LET u == UpdateState(b.states, b.cursor, ml, [id |-> b.nid + 1])
         IN  [b |-> [states |-> u.states, cursor |-> u.cursor, nid |-> b.nid + 1],
              result |-> "ok"]

\* RoboCurl._do_request reached from submit_form: meth(url, params) hands the
\* params dict to get() as its `headers` argument, and a non-empty dict given
\* to setopt(HTTPHEADER, ...) is refused by pycurl with a TypeError; post()
\* url-encodes the dict.  Otherwise the request ends as the transport decides.
SubmitRequest(form, out) ==
    IF form.method = "GET" /\ form.hasParams THEN "TypeError" ELSE out

\* RoboBrowser.submit_form (the undecorated method): self.url is read first
\* (inside _build_url), then one request, then _update_state.
SubmitAttempt(b, ml, form, out) ==
    IF StateAccessor(b.states, b.cursor) # "ok"
    THEN [b |-> b, result |-> StateAccessor(b.states, b.cursor)]
    ELSE IF SubmitRequest(form, out) # "ok"
    THEN [b |-> b, result |-> SubmitRequest(form, out)]
    ELSE LET u == UpdateState(b.states, b.cursor, ml, [id |-> b.nid + 1])
         IN  [b |-> [states |-> u.states, cursor |-> u.cursor, nid |-> b.nid + 1],
              result |-> "ok"]

\* The form handed to submit_form: its method, and whether serialize() yields
\* any field.
Forms == [method : {"GET", "POST"}, hasParams : BOOLEAN]

\* open takes no form.
NoForm == [method |-> "GET", hasParams |-> FALSE]

\* The method a decorated name stands for.
Attempt(name, b, ml, form, out) ==
    IF name = "open" THEN OpenAttempt(b, ml, out)
    ELSE SubmitAttempt(b, ml, form, out)

\* ------------------------------------------------------- the retry wrapper
\* cfg == [tries, errors, delay, multiplier, maxlen]

\* helpers.retry(tries, errors, delay, multiplier)(func), from attempt i on,
\* with d the wait that follows a retryable failure of attempt i: call func;
\* a failure of a kind in errors with attempts left waits d and tries again
\* (d grows by the multiplier when one is set); any other failure, and the
\* failure of the last attempt, is raised to the caller.
\* outs[i] is what the transport does on attempt i.
RECURSIVE RetryFrom(_, _, _, _, _, _, _, _)
RetryFrom(name, b, cfg, form, outs, i, d, waits) ==
    LET r == Attempt(name, b, cfg.maxlen, form, outs[i])
    IN  IF r.result # "ok" /\ r.result \in cfg.errors /\ i < cfg.tries
        THEN RetryFrom(name, r.b, cfg, form, outs, i + 1,
                       IF cfg.multiplier # 0 THEN d * cfg.multiplier ELSE d,
                       Append(waits, d))
        ELSE [b |-> r.b, result |-> r.result, attempts |-> i, waits |-> waits]

\* The wiring with only self.open decorated.
DecoratedOpenOnly(name, b, cfg, form, outs) ==
    IF cfg.tries # 0 /\ name = "open"
    THEN RetryFrom(name, b, cfg, form, outs, 1, cfg.delay, <<>>)
    ELSE LET r == Attempt(name, b, cfg.maxlen, form, outs[1])
         IN  [b |-> r.b, result |-> r.result, attempts |-> 1, waits |-> <<>>]

\* The wiring with the errors argument dropped: every failure is caught.
DecoratedAnyError(name, b, cfg, form, outs) ==
    IF cfg.tries # 0
    THEN RetryFrom(name, b,
                   [cfg EXCEPT !.errors = {"TransportError", "DecodeError",
                                           "TypeError", "NoState"}],
                   form, outs, 1, cfg.delay, <<>>)
    ELSE LET r == Attempt(name, b, cfg.maxlen, form, outs[1])
         IN  [b |-> r.b, result |-> r.result, attempts |-> 1, waits |-> <<>>]

\* __init__, "Set up retries": with tries set, self.open and self.submit_form
\* are the decorated methods; without, the plain ones (a single attempt).
Decorated(name, b, cfg, form, outs) ==
    IF cfg.tries # 0
    THEN RetryFrom(name, b, cfg, form, outs, 1, cfg.delay, <<>>)
    ELSE LET r == Attempt(name, b, cfg.maxlen, form, outs[1])
         IN  [b |-> r.b, result |-> r.result, attempts |-> 1, waits |-> <<>>]

\* RoboBrowser.follow_link: link['href'], then self._build_url(href), which
\* reads self.url, then self.open(...): the instance attribute.
FollowLink(b, cfg, hasHref, outs) ==
    IF ~hasHref
    THEN [b |-> b, result |-> "MissingAttribute", attempts |-> 0, waits |-> <<>>]
    ELSE IF StateAccessor(b.states, b.cursor) # "ok"
    THEN [b |-> b, result |-> StateAccessor(b.states, b.cursor),
          attempts |-> 0, waits |-> <<>>]
    ELSE Decorated("open", b, cfg, NoForm, outs)

\* ---------------------------------------------------------------- actions

Cfg == [tries |-> tries, errors |-> errors, delay |-> delay,
        multiplier |-> multiplier, maxlen |-> maxlen]

Browser == [states |-> states, cursor |-> cursor, nid |-> nid]

\* What the transport does on each attempt a call can make.
OutcomeSeqs == [1..(IF tries = 0 THEN 1 ELSE tries) -> Outcomes]

\* The calls that end in _update_state.
NavOps == {"open", "follow_link", "submit_form"}

\* What `prev` keeps of a call.
Summary(l) ==
    IF l.op \in NavOps /\ l.result = "ok"
    THEN IF l.cursor0 < Len(l.states0) - 1 THEN "offTail" ELSE "tail"
    ELSE "none"

\* A call's end r with the outcomes of the requests it made.
Ended(r, outs) == [r |-> r, outs |-> SubSeq(outs, 1, r.attempts)]

\* The bookkeeping common to the three navigation calls; e is how the call
\* ended.
Navigated(op, e) ==
    /\ states' = e.r.b.states
    /\ cursor' = e.r.b.cursor
    /\ nid' = e.r.b.nid
    /\ last' = [op |-> op, n |-> 0,
                result |-> e.r.result, attempts |-> e.r.attempts,
                outs |-> e.outs, waits |-> e.r.waits,
                states0 |-> states, cursor0 |-> cursor, nid0 |-> nid]
    /\ prev' = Summary(last)
    /\ UNCHANGED <<config, pagevars, decvars>>

\* No page-level call made yet: the session as RoboCurl.__init__ leaves it,
\* no RoboState, binary_type as browser.py leaves it (never assigned).
PageIdle ==
    /\ sess = SessionInit
    /\ dicts = DictsInit
    /\ heap = <<>>
    /\ binary_type = "unbound"
    /\ nreq = 0
    /\ plast = [op |-> "init", error |-> "", sent |-> <<>>, url |-> EmptyRef,
                headers |-> NoHeaders, params |-> {}, method |-> "",
                has_href |-> TRUE, cur0 |-> EmptyRef,
                states0 |-> <<>>, cursor0 |-> -1, parses0 |-> <<>>]

\* No DeflateDecoder under test.
DecIdle ==
    /\ dec = [error |-> "idle"]
    /\ dhist = [decode |-> <<>>, calls |-> <<>>]

Init ==
    /\ history \in HistoryValues
    /\ maxlen = InitMaxlen(history)
    /\ tries \in 0..MaxTries
    /\ errors \in ErrorSets
    /\ delay \in Delays
    /\ multiplier \in Multipliers
    \* Without tries the other retry arguments are never read, and without a
    \* delay the multiplier multiplies nothing: one value stands for each.
    /\ tries = 0 => (errors = {"TransportError"} /\ delay = 0)
    /\ delay = 0 => multiplier = 0
    /\ states = <<>>
    /\ cursor = -1
    /\ nid = 0
    /\ last = [op |-> "init", n |-> 0,
               result |-> "ok", attempts |-> 0, outs |-> <<>>, waits |-> <<>>,
               states0 |-> <<>>, cursor0 |-> -1, nid0 |-> 0]
    /\ prev = "none"
    /\ PageIdle
    /\ DecIdle

\* browser.open(url)
Open ==
    /\ nid < MaxPages
    /\ \E e \in {Ended(Decorated("open", Browser, Cfg, NoForm, outs), outs) :
                    outs \in OutcomeSeqs} :
          Navigated("open", e)

\* browser.follow_link(link)
Follow ==
    /\ nid < MaxPages
    /\ \E hasHref \in BOOLEAN :
          \E e \in {Ended(FollowLink(Browser, Cfg, hasHref, outs), outs) :
                      outs \in OutcomeSeqs} :
             Navigated("follow_link", e)

\* browser.submit_form(form)
Submit ==
    /\ nid < MaxPages
    /\ \E form \in Forms :
          \E e \in {Ended(Decorated("submit_form", Browser, Cfg, form, outs), outs) :
                      outs \in OutcomeSeqs} :
             Navigated("submit_form", e)

\* The bookkeeping common to back and forward.
Traversed(op, n, r) ==
    /\ cursor' = r.cursor
    /\ last' = [op |-> op, n |-> n,
                result |-> r.result, attempts |-> 0, outs |-> <<>>,
                waits |-> <<>>,
                states0 |-> states, cursor0 |-> cursor, nid0 |-> nid]
    /\ prev' = Summary(last)
    /\ UNCHANGED <<config, states, nid, pagevars, decvars>>

\* browser.back(n): self._traverse(-1 * n)
Back ==
    \E n \in -1..MaxStep :
        Traversed("back", n, Traverse(history, states, cursor, -1 * n))

\* browser.forward(n): self._traverse(n)
Forward ==
    \E n \in -1..MaxStep :
        Traversed("forward", n, Traverse(history, states, cursor, n))

Next == Open \/ Follow \/ Submit \/ Back \/ Forward

Spec == Init /\ [][Next]_vars

\* ------------------------------------------------------------- properties
TraverseOps == {"back", "forward"}

\* The last call was a navigation that succeeded.
NavOk == last.op \in NavOps /\ last.result = "ok"

\* The RoboState the last call constructed.
NewState == [id |-> last.nid0 + 1]

\* What list the last navigation had after "Clear trailing states" and
\* "Append new state".
Appended == Append(SubSeq(last.states0, 1, last.cursor0 + 1), NewState)

\* C1: after any sequence of open, follow_link, submit_form, back(n) and
\* forward(n) calls, failed or not, -1 <= cursor < length(states), and
\* cursor = -1 exactly when states is empty.
C1_CursorInRange ==
    /\ -1 <= cursor
    /\ cursor < Len(states)
    /\ (cursor = -1 <=> states = <<>>)

\* C1 witness: a back() succeeded onto the first state of a history whose
\* oldest state had been evicted.
C1_Witness ==
    /\ last.op = "back" /\ last.result = "ok"
    /\ cursor = 0 /\ Len(states) = 2
    /\ states[1].id > 1

\* C2: with a maximum depth M set, length(states) <= M always; a push that
\* exceeds M removes exactly the oldest entries, the others keep their order,
\* and the cursor is decremented by the number removed.
C2_DepthBound ==
    maxlen # NoneLen =>
        /\ Len(states) <= maxlen
        /\ NavOk =>
              LET removed == IF Len(Appended) > maxlen
                             THEN Len(Appended) - maxlen ELSE 0
              IN  /\ states = SubSeq(Appended, removed + 1, Len(Appended))
                  /\ cursor = (last.cursor0 + 1) - removed

\* C2 witness: a push onto a full history of depth 2 evicted its oldest state.
C2_Witness ==
    /\ maxlen = 2 /\ NavOk
    /\ Len(last.states0) = 2 /\ last.cursor0 = 1
    /\ states = <<last.states0[2], NewState>>

\* C3: right after every successful navigation the cursor is on the last
\* state, which is the one that call created; started with the cursor on the
\* tail (as every open of a run of opens without back is), the length grows
\* by one unless the maximum depth is reached.
C3_LandsOnNewState ==
    NavOk =>
        /\ cursor = Len(states) - 1
        /\ states[cursor + 1] = NewState
        /\ \A i \in 1..Len(last.states0) : last.states0[i] # NewState
        /\ last.cursor0 = Len(last.states0) - 1 =>
              Len(states) = IF maxlen # NoneLen /\ Len(last.states0) >= maxlen
                            THEN maxlen ELSE Len(last.states0) + 1

\* C3 witness: a submit_form succeeded from the first of three states.
C3_Witness ==
    /\ last.op = "submit_form" /\ last.result = "ok"
    /\ Len(last.states0) = 3 /\ last.cursor0 = 0

\* C4: a successful navigation with the cursor not on the tail drops every
\* state after the cursor, keeps states[0..cursor] as they were and appends
\* the new state last; a forward() right after it fails with
\* IndexOutOfRangeError.
C4_Truncation ==
    /\ (NavOk /\ last.cursor0 < Len(last.states0) - 1) =>
          /\ states = Appended
          /\ cursor = Len(states) - 1
    /\ (prev = "offTail" /\ last.op = "forward" /\ last.n = 1) =>
          /\ last.result = "IndexOutOfRange"
          /\ states = last.states0 /\ cursor = last.cursor0

\* C4 witness: [A, B, C], back, open(D), forward(): the history is [A, B, D].
C4_Witness ==
    /\ prev = "offTail" /\ last.op = "forward" /\ last.n = 1
    /\ Len(states) = 3 /\ states[2].id = 2 /\ states[3].id = 4

\* The cursor back(n) / forward(n) asks for.
Target == last.cursor0 + (IF last.op = "back" THEN -1 * last.n ELSE last.n)

\* C5: with history tracking on, back(n) / forward(n) fail with
\* IndexOutOfRangeError exactly when the cursor asked for is outside
\* [0, length(states)); a failing call changes nothing, a succeeding one sets
\* the cursor and leaves states alone.
C5_TraverseBounds ==
    (Truthy(history) /\ last.op \in TraverseOps) =>
        /\ last.result \in {"ok", "IndexOutOfRange"}
        /\ last.result = "IndexOutOfRange" <=>
              (Target < 0 \/ Target >= Len(last.states0))
        /\ states = last.states0
        /\ cursor = IF last.result = "ok" THEN Target ELSE last.cursor0

\* C5 witness: forward() on the tail of a history of two states failed.
C5_Witness ==
    /\ Truthy(history) /\ last.op = "forward" /\ last.n = 1
    /\ last.cursor0 = 1 /\ Len(last.states0) = 2
    /\ last.result = "IndexOutOfRange"

\* C6: with a falsy history value every back(n) and forward(n) fails with
\* HistoryDisabledError, for every n, before and after navigations, and
\* changes nothing; at most the current page is kept.
C6_DisabledHistory ==
    ~Truthy(history) =>
        /\ Len(states) <= 1
        /\ last.op \in TraverseOps =>
              /\ last.result = "HistoryDisabled"
              /\ states = last.states0 /\ cursor = last.cursor0

\* C6 witness: history = 0, two navigations, then forward(0).
C6_Witness ==
    /\ history = [kind |-> "int", value |-> 0]
    /\ last.op = "forward" /\ last.n = 0 /\ nid = 2
    /\ last.result = "HistoryDisabled"

\* C7: the state accessor (response, url and parsed read through it) fails
\* with NoStateError exactly when no navigation has succeeded yet, and never
\* with IndexOutOfRangeError.
C7_AccessorsAvailable ==
    /\ StateAccessor(states, cursor) = "NoState" <=> nid = 0
    /\ StateAccessor(states, cursor) # "IndexOutOfRange"

\* C7 witness: after a navigation succeeded, a back() and then a request
\* failed; the accessor still answers.
C7_Witness ==
    /\ nid >= 2 /\ cursor = 0 /\ Len(states) = 2
    /\ last.op = "open" /\ last.result = "TransportError"
    /\ StateAccessor(states, cursor) = "ok"

\* C8: a navigation call that ends in success creates and pushes exactly one
\* RoboState, however many attempts it took; one that fails creates none and
\* leaves states and cursor as they were.
C8_OneStatePerSuccess ==
    last.op \in NavOps =>
        /\ last.result = "ok" =>
              /\ nid = last.nid0 + 1
              /\ Cardinality({i \in 1..Len(states) : states[i] = NewState}) = 1
              /\ \A i \in 1..Len(states) :
                    states[i] # NewState =>
                        \E j \in 1..Len(last.states0) : states[i] = last.states0[j]
        /\ last.result # "ok" =>
              /\ nid = last.nid0
              /\ states = last.states0 /\ cursor = last.cursor0

\* C8 witness: a submit_form succeeded on its third attempt, with a state
\* after the cursor.
C8_Witness ==
    /\ last.op = "submit_form" /\ last.result = "ok" /\ last.attempts = 3
    /\ last.cursor0 < Len(last.states0) - 1

\* A failure of a kind the errors argument names.
Retryable(x) == x # "ok" /\ x \in errors

\* A failure of any other kind.
NonRetryable(x) == x # "ok" /\ x \notin errors

RECURSIVE Pow(_, _)
Pow(x, e) == IF e = 0 THEN 1 ELSE x * Pow(x, e - 1)

\* The wait after the failed attempt i: delay * multiplier^(i - 1), the
\* multiplier being 1 when none is set.
ScheduledWait(i) == delay * Pow(IF multiplier = 0 THEN 1 ELSE multiplier, i - 1)

\* C9: with tries = N >= 1 a navigation call makes at most N attempts; when
\* attempts 1..k-1 fail with a retryable kind and attempt k succeeds it
\* returns the success after exactly k attempts and k-1 waits on the
\* delay * multiplier^i schedule; a retryable failure is raised to the caller
\* only after exactly N attempts.
C9_RetryAttempts ==
    (tries >= 1 /\ last.op \in NavOps) =>
        LET k == last.attempts
        IN  /\ k <= tries
            /\ k >= 1 =>
                  /\ \A i \in 1..(k - 1) : Retryable(last.outs[i])
                  /\ \/ last.result = last.outs[k]
                     \/ /\ last.op = "submit_form" /\ k = 1
                        /\ last.result \in {"NoState", "TypeError"}
                  /\ Len(last.waits) = k - 1
                  /\ \A i \in 1..(k - 1) : last.waits[i] = ScheduledWait(i)
                  /\ Retryable(last.result) => k = tries

\* C9 witness: tries = 3, delay 2, multiplier 3: a follow_link succeeded on
\* its third attempt after waiting 2 and 6.
C9_Witness ==
    /\ tries = 3 /\ delay = 2 /\ multiplier = 3
    /\ last.op = "follow_link" /\ last.result = "ok"
    /\ last.attempts = 3 /\ last.waits = <<2, 6>>

\* C10: a failure of a kind that is not retryable, on any attempt of a
\* decorated open or submit_form, is raised at once: no attempt and no wait
\* follows it, whatever the tries left; back and forward make no attempts
\* and never wait.
C10_NonRetryableImmediate ==
    /\ last.op \in NavOps =>
          /\ \A i \in 1..last.attempts :
                NonRetryable(last.outs[i]) => i = last.attempts
          /\ (last.attempts >= 1 /\ NonRetryable(last.result)) =>
                /\ Len(last.waits) = last.attempts - 1
                /\ \A i \in 1..(last.attempts - 1) : Retryable(last.outs[i])
    /\ last.op \in TraverseOps => (last.attempts = 0 /\ last.waits = <<>>)

\* C10 witness: tries = 3 and only transport errors retryable: the second
\* attempt of an open failed decoding and ended the call after one wait.
C10_Witness ==
    /\ tries = 3 /\ errors = {"TransportError"}
    /\ last.op = "open" /\ last.result = "DecodeError"
    /\ last.attempts = 2 /\ Len(last.waits) = 1

\* The history argument given as the integer 1.
DepthOne == [kind |-> "int", value |-> 1]

\* C18 as claimed: with the integer depth 1 every back(n) and forward(n)
\* fails with HistoryDisabledError, as for a falsy history value.
C18_DepthOneDisables ==
    (history = DepthOne /\ last.op \in TraverseOps) =>
        last.result = "HistoryDisabled"

\* C18 as amended: with the integer depth 1 history tracking stays on:
\* back(n) and forward(n) never fail with HistoryDisabledError; they succeed
\* exactly for n = 0 on an opened page and fail with IndexOutOfRangeError
\* otherwise, and change neither states nor cursor.
C18_DepthOneTracks ==
    (history = DepthOne /\ last.op \in TraverseOps) =>
        /\ last.result # "HistoryDisabled"
        /\ last.result = "ok" <=> (last.n = 0 /\ last.cursor0 = 0)
        /\ last.result # "ok" => last.result = "IndexOutOfRange"
        /\ states = last.states0 /\ cursor = last.cursor0
        /\ Len(states) <= 1

\* C18 witness: history = 1, two pages opened, forward() failed with
\* IndexOutOfRangeError.
C18_Witness ==
    /\ history = DepthOne /\ nid = 2
    /\ last.op = "forward" /\ last.n = 1
    /\ last.result = "IndexOutOfRange"


\* ======================================================================
\* The browser with its pages: what each call sends and what it stores
\* ======================================================================

\* The objects a call works on.
World ==
    [states |-> states, cursor |-> cursor, nid |-> nid, heap |-> heap,
     sess |-> sess, dicts |-> dicts]

\* self.state, where there is one.
CurrentState(w) == w.heap[w.states[w.cursor + 1].id]

\* RoboBrowser.url (self.state.url), or the empty reference without a state.
CurrentUrl(w) ==
    IF StateAccessor(w.states, w.cursor) = "ok" THEN CurrentState(w).url
    ELSE EmptyRef

\* _update_state(response) after a request that returned: a RoboState is
\* built from the session and pushed.
PushState(w, ml, r) ==
    LET u == UpdateState(w.states, w.cursor, ml, [id |-> w.nid + 1])
    IN  [states |-> u.states, cursor |-> u.cursor, nid |-> w.nid + 1,
         heap |-> Append(w.heap, RoboState(r.s, r.ds)),
         sess |-> r.s, dicts |-> r.ds]

\* A request that raised: only the session keeps what the request did.
Raised(w, r) == [w EXCEPT !.sess = r.s, !.dicts = r.ds]

\* The dicts still referenced, by the session or by a response.
Referenced(w) ==
    {w.sess.headers} \cup
    {w.heap[k].response.headers : k \in 1..Len(w.heap)}

\* Reference counting frees the dicts nothing names any more.
Collect(w) == [w EXCEPT !.dicts = [r \in Referenced(w) |-> w.dicts[r]]]

\* Line 328: the url open hands to session.get is its argument as given.
OpenUrlResolved(w, url) == UrlJoin(CurrentUrl(w), url)

OpenUrl(w, url) == url

\* RoboBrowser.open(url, **kwargs)
PageOpen(w, ml, url, headers, reply, bt) ==
    LET r == Get(w.sess, w.dicts, OpenUrl(w, url), headers, reply, bt)
    IN  [w |-> IF r.error = "" THEN PushState(w, ml, r) ELSE Raised(w, r),
         error |-> r.error, sent |-> r.sent]

\* Line 448: self._build_url(href).
FollowUrlAsGiven(w, href) == href

FollowUrl(w, href) == UrlJoin(CurrentUrl(w), href)

\* RoboBrowser.follow_link(link)
PageFollowLink(w, ml, link, reply, bt) ==
    IF ~link.has_href
    THEN [w |-> w, error |-> "MissingAttribute", sent |-> <<>>]
    ELSE IF StateAccessor(w.states, w.cursor) # "ok"
    THEN [w |-> w, error |-> StateAccessor(w.states, w.cursor), sent |-> <<>>]
    ELSE PageOpen(w, ml, FollowUrl(w, link.href), NoHeaders, reply, bt)

\* Line 463: self._build_url(form.action) or self.url
SubmitUrl(w, action) ==
    IF UrlJoin(CurrentUrl(w), action) = EmptyRef THEN CurrentUrl(w)
    ELSE UrlJoin(CurrentUrl(w), action)

\* RoboBrowser.submit_form(form): meth(url, params) binds params to the
\* second positional parameter, which is `params` of post but `headers` of
\* get.
PageSubmitForm(w, ml, form, reply, bt) ==
    IF StateAccessor(w.states, w.cursor) # "ok"
    THEN [w |-> w, error |-> StateAccessor(w.states, w.cursor), sent |-> <<>>]
    ELSE
    LET s == [w.sess EXCEPT !.payload = <<>>]
        r == IF form.method = "POST"
             THEN Post(s, w.dicts, SubmitUrl(w, form.action), form.params,
                       NoHeaders, reply, bt)
             ELSE Get(s, w.dicts, SubmitUrl(w, form.action),
                      HeaderDict(form.params), reply, bt)
    IN  [w |-> IF r.error = "" THEN PushState(w, ml, r) ELSE Raised(w, r),
         error |-> r.error, sent |-> r.sent]

\* browser.state.parsed
PageParsed(w) ==
    IF StateAccessor(w.states, w.cursor) # "ok"
    THEN [w |-> w, error |-> StateAccessor(w.states, w.cursor), sent |-> <<>>]
    ELSE [w |-> [w EXCEPT !.heap[w.states[w.cursor + 1].id] =
                              Parsed(CurrentState(w))],
          error |-> "", sent |-> <<>>]

\* browser.back(n) / browser.forward(n) with the pages in place.
PageTraverse(w, h, n) ==
    LET t == Traverse(h, w.states, w.cursor, n)
    IN  [w |-> [w EXCEPT !.cursor = t.cursor],
         error |-> IF t.result = "ok" THEN "" ELSE t.result, sent |-> <<>>]

\* ------------------------------------------------------------------ inputs
\* The urls given to open, the links given to follow_link and the forms
\* given to submit_form.
OpenUrls == {Abs("a", "/p"), Rel("/q")}

HeaderArgs == {NoHeaders, HeaderList({[name |-> "X-A", value |-> "1"]})}

Links ==
    {[has_href |-> FALSE, href |-> EmptyRef],
     [has_href |-> TRUE, href |-> Rel("/q")],
     [has_href |-> TRUE, href |-> Abs("b", "/p")]}

PageForms ==
    [method : {"GET", "POST"}, action : {EmptyRef, Rel("/q")},
     params : {{}, {<<"q", "1">>}}]

\* What the server answers to one perform(): whether perform raises
\* pycurl.error, and the header block and the body bytes it delivers. The
\* body is one chunk in the declared format, or not in it.
Chunk(fmt, k, txt) == [fmt |-> fmt, k |-> k, txt |-> txt, bad |-> FALSE]

EncodingLine(e) == <<[name |-> "Content-Encoding", value |-> e]>>

Reply(status, lines, fmt, txt) ==
    [perform |-> "ok", hdr |-> [status |-> status, lines |-> lines],
     body |-> <<Chunk(fmt, 1, txt)>>]

NoReply ==
    [perform |-> "error", hdr |-> [status |-> "", lines |-> <<>>],
     body |-> <<>>]

\* perform raising; two plain pages; a gzip page; a page declared gzip whose
\* body is not gzip; a page declared deflate with a zlib-wrapped body and
\* one with a raw deflate body.
Replies ==
    {NoReply,
     Reply("HTTP/1.1 200 OK", <<>>, "plain", "t1"),
     Reply("HTTP/1.1 404 Not Found", <<>>, "plain", "t2"),
     Reply("HTTP/1.1 200 OK", EncodingLine("gzip"), "gzip", "t1"),
     Reply("HTTP/1.1 200 OK", EncodingLine("gzip"), "plain", "t2"),
     Reply("HTTP/1.1 200 OK", EncodingLine("deflate"), "zlib", "t1"),
     Reply("HTTP/1.1 404 Not Found", EncodingLine("deflate"), "raw", "t2")}

\* ----------------------------------------------------------------- actions
\* How each RoboState's parse count stands.
Parses(h) == [k \in 1..Len(h) |-> h[k].parses]

\* The bookkeeping common to the page-level calls; res is what the call
\* came to, arg what it was given.
PageDone(op, res, arg) ==
    LET w == Collect(res.w)
    IN  /\ states' = w.states
        /\ cursor' = w.cursor
        /\ nid' = w.nid
        /\ heap' = w.heap
        /\ sess' = w.sess
        /\ dicts' = w.dicts
        /\ plast' = [op |-> op, error |-> res.error, sent |-> res.sent,
                     url |-> arg.url, headers |-> arg.headers,
                     params |-> arg.params, method |-> arg.method,
                     has_href |-> arg.has_href, cur0 |-> CurrentUrl(World),
                     states0 |-> states, cursor0 |-> cursor,
                     parses0 |-> Parses(heap)]
        /\ UNCHANGED <<config, last, prev, binary_type, decvars>>

NoArg ==
    [url |-> EmptyRef, headers |-> NoHeaders, params |-> {}, method |-> "",
     has_href |-> TRUE]

\* browser.open(url, headers=...)
OpenPage ==
    /\ nreq < MaxRequests
    /\ nreq' = nreq + 1
    /\ \E url \in OpenUrls, headers \in HeaderArgs, reply \in Replies :
          PageDone("open",
                   PageOpen(World, maxlen, url, headers, reply, binary_type),
                   [NoArg EXCEPT !.url = url, !.headers = headers])

\* browser.follow_link(link)
FollowLinkPage ==
    /\ nreq < MaxRequests
    /\ nreq' = nreq + 1
    /\ \E link \in Links, reply \in Replies :
          PageDone("follow_link",
                   PageFollowLink(World, maxlen, link, reply, binary_type),
                   [NoArg EXCEPT !.url = link.href,
                                 !.has_href = link.has_href])

\* browser.submit_form(form)
SubmitFormPage ==
    /\ nreq < MaxRequests
    /\ nreq' = nreq + 1
    /\ \E form \in PageForms, reply \in Replies :
          PageDone("submit_form",
                   PageSubmitForm(World, maxlen, form, reply, binary_type),
                   [NoArg EXCEPT !.url = form.action, !.params = form.params,
                                 !.method = form.method])

\* browser.state.parsed (also behind find, find_all and select)
ReadParsed ==
    /\ PageDone("parsed", PageParsed(World), NoArg)
    /\ UNCHANGED nreq

\* browser.back() / browser.forward() between pages
BackPage ==
    /\ PageDone("back", PageTraverse(World, history, -1), NoArg)
    /\ UNCHANGED nreq

ForwardPage ==
    /\ PageDone("forward", PageTraverse(World, history, 1), NoArg)
    /\ UNCHANGED nreq

\* A browser that keeps its history, built without a retry wrapper.
InitPage ==
    /\ history = HistoryTrue
    /\ maxlen = InitMaxlen(history)
    /\ tries = 0 /\ errors = {"TransportError"}
    /\ delay = 0 /\ multiplier = 0
    /\ states = <<>> /\ cursor = -1 /\ nid = 0
    /\ last = [op |-> "init", n |-> 0,
               result |-> "ok", attempts |-> 0, outs |-> <<>>, waits |-> <<>>,
               states0 |-> <<>>, cursor0 |-> -1, nid0 |-> 0]
    /\ prev = "none"
    /\ PageIdle
    /\ DecIdle

NextPage ==
    OpenPage \/ FollowLinkPage \/ SubmitFormPage \/ ReadParsed
        \/ BackPage \/ ForwardPage

SpecPage == InitPage /\ [][NextPage]_vars

\* ------------------------------------------------------ page-level claims
\* The RoboState objects the history holds.
InHistory == {states[i].id : i \in 1..Len(states)}

\* The calls that navigate.
PageNavOps == {"open", "follow_link", "submit_form"}

\* C11: BeautifulSoup runs at most once per RoboState: a state is created
\* unparsed and no call but a read of parsed changes any parse count; a read
\* parses the current state if and only if it was never parsed, caches the
\* document made of the response content, and leaves every other state's
\* count alone, also when the state was left and come back to with back /
\* forward; the response keeps the content, url and headers it was built
\* with.
C11_ParseOnce ==
    /\ \A k \in 1..Len(heap) :
          /\ heap[k].parses <= 1
          /\ heap[k].parsed.none <=> heap[k].parses = 0
          /\ ~heap[k].parsed.none => heap[k].parsed.doc = heap[k].response.content
          /\ heap[k].response.content = heap[k].born.content
          /\ heap[k].response.url = heap[k].born.url
          /\ dicts[heap[k].response.headers] = heap[k].born.headers
          /\ k > Len(plast.parses0) => heap[k].parses = 0
          /\ (k <= Len(plast.parses0) /\ plast.op # "parsed") =>
                heap[k].parses = plast.parses0[k]
          /\ (k <= Len(plast.parses0) /\ plast.op = "parsed") =>
                heap[k].parses =
                    IF plast.error = "" /\ k = states[cursor + 1].id
                    THEN 1 ELSE plast.parses0[k]

\* C11 witness: two pages, both parsed before, the browser is back on the
\* first one and parsed was read there again.
C11_Witness ==
    /\ plast.op = "parsed" /\ plast.error = ""
    /\ Len(states) = 2 /\ cursor = 0
    /\ plast.parses0 = <<1, 1>>
    /\ heap[states[1].id].parses = 1

\* The last call was made with a current page.
HadPage == plast.cursor0 # -1

\* The RoboState pushed by the last call, when it was a navigation that
\* succeeded.
Pushed == heap[Len(heap)]

\* The last call pushed exactly one RoboState after the page it started
\* from and landed on it.
PushedOne ==
    /\ Len(heap) = Len(plast.parses0) + 1
    /\ cursor = Len(states) - 1
    /\ states[cursor + 1].id = Len(heap)
    /\ Len(states) <= plast.cursor0 + 2

C13_SubmitDispatch ==
    (plast.op = "submit_form" /\ HadPage) =>
        /\ Len(plast.sent) = 1
        /\ plast.sent[1].method = plast.method
        /\ plast.sent[1].url =
              IF plast.url = EmptyRef THEN plast.cur0
              ELSE UrlJoin(plast.cur0, plast.url)
        /\ plast.sent[1].params = plast.params
        /\ plast.error = "" => PushedOne

\* C14: follow_link on a link without href raises the missing-attribute
\* RoboError, sends nothing and leaves states and cursor as they were; on a
\* link with an href and a current page it sends one GET for the href
\* resolved against the current page's URL, pushes one RoboState when the
\* request returns and leaves the history alone when it raises.
C14_FollowLink ==
    plast.op = "follow_link" =>
        /\ ~plast.has_href =>
              /\ plast.error = "MissingAttribute"
              /\ plast.sent = <<>>
              /\ states = plast.states0 /\ cursor = plast.cursor0
              /\ Len(heap) = Len(plast.parses0)
        /\ (plast.has_href /\ HadPage) =>
              /\ Len(plast.sent) = 1
              /\ plast.sent[1].method = "GET"
              /\ plast.sent[1].url = UrlJoin(plast.cur0, plast.url)
              /\ plast.error = "" =>
                    (PushedOne /\ Pushed.url = UrlJoin(plast.cur0, plast.url))
              /\ plast.error # "" =>
                    (states = plast.states0 /\ cursor = plast.cursor0)

\* C14 witness: a relative href followed from a page with an absolute URL;
\* the request went to the joined URL and the new page was pushed.
C14_Witness ==
    /\ plast.op = "follow_link" /\ plast.has_href /\ plast.error = ""
    /\ plast.cur0 = Abs("a", "/p") /\ plast.url = Rel("/q")
    /\ plast.sent[1].url = Abs("a", "/q")
    /\ Len(states) = 2 /\ cursor = 1

\* C15: every RoboState in the history has the content, url and headers its
\* response was built with, whatever was called since (requests that
\* returned or raised, parsed, back, forward).
C15_ResponseSnapshot ==
    \A k \in InHistory :
        /\ heap[k].response.content = heap[k].born.content
        /\ heap[k].response.url = heap[k].born.url
        /\ heap[k].url = heap[k].born.url
        /\ dicts[heap[k].response.headers] = heap[k].born.headers

\* C15 witness: the first page came with a content-encoding header and was
\* parsed; the session has since rebound its headers and payload for
\* another page, and the browser went back.
C15_Witness ==
    /\ Len(states) = 2 /\ cursor = 0 /\ plast.op = "back"
    /\ heap[states[1].id].born.headers # {}
    /\ ~heap[states[1].id].parsed.none
    /\ dicts[sess.headers] = {}
    /\ sess.payload # heap[states[1].id].born.content

\* C16: every response in the history has the status line parse_headers
\* read for the request that produced it.
C16_StatusLine ==
    \A k \in InHistory :
        heap[k].response.status_line = heap[k].born.status_line

\* C20: the handle holds no custom header with a value once a call has
\* ended, and a call made without custom headers sends none.
C20_NoHeaderLeak ==
    /\ \A h \in sess.httpheader : h.value = ""
    /\ plast.headers = NoHeaders =>
          \A i \in 1..Len(plast.sent) : plast.sent[i].headers = {}

\* ======================================================================
\* The decoders on their own: one-shot decoding of a body as _do_request
\* does it, and a DeflateDecoder fed a stream piece by piece
\* ======================================================================

\* Bodies of one chunk in each format.
Bodies == {<<Chunk(fmt, 1, "t1")>> : fmt \in {"zlib", "raw", "gzip", "plain"}}

\* The piece handed to the i-th decompress call: the i-th piece of a zlib or
\* raw stream, intact or corrupt.
Pieces(i) ==
    {[fmt |-> fmt, k |-> i, txt |-> "t1", bad |-> bad] :
        fmt \in {"zlib", "raw"}, bad \in BOOLEAN}

\* Lines 109-112 on a body declared `mode`.
DecodeBody ==
    /\ dec.error = "idle"
    /\ \E mode \in {"gzip", "deflate"}, body \in Bodies :
          LET r == DecodePayload(mode, body, binary_type)
          IN  dhist' = [dhist EXCEPT !.decode =
                          <<[mode |-> mode, body |-> body, error |-> r.error,
                             payload |-> r.payload, switched |-> r.switched]>>]
    /\ UNCHANGED <<config, states, cursor, nid, last, prev, pagevars, dec>>

\* decoder = DeflateDecoder()
Construct ==
    /\ dec.error = "idle"
    /\ dec' = DeflateDecoderInit(binary_type)
    /\ UNCHANGED <<config, states, cursor, nid, last, prev, pagevars, dhist>>

\* decoder.decompress(data) with the next piece of the stream
Feed ==
    /\ dec.error = ""
    /\ Len(dhist.calls) < MaxChunks
    /\ \E c \in Pieces(Len(dhist.calls) + 1) :
          LET r == DeflateDecompress(dec, <<c>>)
          IN  /\ dec' = r.d
              /\ dhist' = [dhist EXCEPT !.calls =
                             Append(@, [data |-> <<c>>, out |-> r.out,
                                        err |-> r.err, switched |-> r.switched,
                                        before |-> dec, after |-> r.d])]
    /\ UNCHANGED <<config, states, cursor, nid, last, prev, pagevars>>

InitDecoder ==
    /\ history = HistoryTrue
    /\ maxlen = InitMaxlen(history)
    /\ tries = 0 /\ errors = {"TransportError"}
    /\ delay = 0 /\ multiplier = 0
    /\ states = <<>> /\ cursor = -1 /\ nid = 0
    /\ last = [op |-> "init", n |-> 0,
               result |-> "ok", attempts |-> 0, outs |-> <<>>, waits |-> <<>>,
               states0 |-> <<>>, cursor0 |-> -1, nid0 |-> 0]
    /\ prev = "none"
    /\ sess = SessionInit /\ dicts = DictsInit /\ heap = <<>> /\ nreq = 0
    /\ plast = [op |-> "init", error |-> "", sent |-> <<>>, url |-> EmptyRef,
                headers |-> NoHeaders, params |-> {}, method |-> "",
                has_href |-> TRUE, cur0 |-> EmptyRef,
                states0 |-> <<>>, cursor0 |-> -1, parses0 |-> <<>>]
    /\ binary_type \in {"unbound", "bytes"}
    /\ DecIdle

NextDecoder == DecodeBody \/ Construct \/ Feed

SpecDecoder == InitDecoder /\ [][NextDecoder]_vars

\* ---------------------------------------------------------- decoder claims
\* The plaintext of a body.
PlainOf(body) == [i \in 1..Len(body) |-> Plain(body[i])]

\* C17: a body declared deflate is decoded to its plaintext when it is
\* zlib-wrapped, without fallback, and when it is raw deflate, by the
\* fallback; a body declared gzip is inflated as gzip, never with a
\* fallback: a gzip body gives its plaintext, any other body the zlib
\* error.
C17_DeflateDecoding ==
    \A i \in 1..Len(dhist.decode) :
        LET d == dhist.decode[i]
        IN  /\ (d.mode = "deflate" /\ d.body[1].fmt = "zlib") =>
                  (d.error = "" /\ d.payload = PlainOf(d.body) /\ ~d.switched)
            /\ (d.mode = "deflate" /\ d.body[1].fmt = "raw") =>
                  (d.error = "" /\ d.payload = PlainOf(d.body) /\ d.switched)
            /\ d.mode = "gzip" =>
                  /\ ~d.switched
                  /\ d.body[1].fmt = "gzip" =>
                        (d.error = "" /\ d.payload = PlainOf(d.body))
                  /\ d.body[1].fmt # "gzip" => d.error = "DecodeError"

=============================================================================
